---- MODULE Spec2Model ----
(***************************************************************************)
(* Model of ad_verifier_gemini.py: one request of the "Verify Script"      *)
(* handler (scrape the target URL, pick a Gemini model, generate, strip    *)
(* the fence, parse the JSON reply, render the verdict).                   *)
(*                                                                         *)
(* Python strings are sequences of one-character strings, so that          *)
(* startswith, strip, split, slicing and json.loads are computed as the    *)
(* code computes them.  The grave accent, which SANY does not read inside  *)
(* a string, is the character written "U+0060".                            *)
(***************************************************************************)
EXTENDS Integers, Sequences, FiniteSets, TLC

----------------------------------------------------------------------------
(* str helpers *)

\* F applied to the value of v: a LET whose value is computed once, also
\* where TLC evaluates ENABLED
With(v, F(_)) == CHOOSE z \in {F(x) : x \in {v}} : TRUE

\* characters str.strip() removes (the whitespace of the modelled alphabet)
WS == {" ", "\n", "\t", "\r"}

UpperAlpha == <<"A", "B", "C", "D", "E", "F", "G", "H", "I", "J", "K", "L", "M", "N", "O", "P", "Q", "R", "S", "T", "U", "V", "W", "X", "Y", "Z">>
LowerAlpha == <<"a", "b", "c", "d", "e", "f", "g", "h", "i", "j", "k", "l", "m", "n", "o", "p", "q", "r", "s", "t", "u", "v", "w", "x", "y", "z">>

IndexIn(alpha, c) ==
  IF \E i \in 1..Len(alpha) : alpha[i] = c
  THEN CHOOSE i \in 1..Len(alpha) : alpha[i] = c
  ELSE 0

\* str.lower()
Lower(s) ==
  [i \in 1..Len(s) |->
     IF IndexIn(UpperAlpha, s[i]) # 0 THEN LowerAlpha[IndexIn(UpperAlpha, s[i])] ELSE s[i]]

\* str.upper()
Upper(s) ==
  [i \in 1..Len(s) |->
     IF IndexIn(LowerAlpha, s[i]) # 0 THEN UpperAlpha[IndexIn(LowerAlpha, s[i])] ELSE s[i]]

\* s[n:]
Drop(s, n) == IF n >= Len(s) THEN <<>> ELSE SubSeq(s, n + 1, Len(s))

\* s[:n]
Take(s, n) == IF n >= Len(s) THEN s ELSE SubSeq(s, 1, n)

\* s.startswith(p)
StartsWith(s, p) == Len(s) >= Len(p) /\ SubSeq(s, 1, Len(p)) = p

\* p occurs in s at index i
OccursAt(s, p, i) == i + Len(p) - 1 <= Len(s) /\ SubSeq(s, i, i + Len(p) - 1) = p

Least(S) == CHOOSE i \in S : \A j \in S : i <= j

Greatest(S) == CHOOSE i \in S : \A j \in S : i >= j

\* index of the first occurrence of p in s, 0 when there is none (s.find(p) + 1)
Find(s, p) ==
  With({i \in 1..Len(s) : OccursAt(s, p, i)}, LAMBDA hits :
    IF hits = {} THEN 0 ELSE Least(hits))

\* p in s
Contains(s, p) == Len(p) = 0 \/ Find(s, p) # 0

\* s.strip()
Strip(s) ==
  With({i \in 1..Len(s) : s[i] \notin WS}, LAMBDA inked :
    IF inked = {} THEN <<>> ELSE SubSeq(s, Least(inked), Greatest(inked)))

\* s.split(sep), sep non-empty
RECURSIVE Split(_, _)
Split(s, sep) ==
  With(Find(s, sep), LAMBDA i :
    IF i = 0 THEN <<s>>
    ELSE <<Take(s, i - 1)>> \o With(Drop(s, i + Len(sep) - 1), LAMBDA rest : Split(rest, sep)))

\* s.splitlines() for the line boundaries \n, \r and \r\n
RECURSIVE SplitLines(_)
SplitLines(s) ==
  IF s = <<>> THEN <<>>
  ELSE IF \E i \in 1..Len(s) : s[i] \in {"\n", "\r"}
  THEN With(CHOOSE k \in 1..Len(s) :
              s[k] \in {"\n", "\r"} /\ \A j \in 1..(k - 1) : s[j] \notin {"\n", "\r"},
            LAMBDA i :
       With(IF s[i] = "\r" /\ i < Len(s) /\ s[i + 1] = "\n" THEN i + 1 ELSE i,
            LAMBDA e :
         <<Take(s, i - 1)>> \o With(Drop(s, e), LAMBDA rest : SplitLines(rest))))
  ELSE <<s>>

\* sep.join(parts)
RECURSIVE Join(_, _)
Join(parts, sep) ==
  IF parts = <<>> THEN <<>>
  ELSE IF Len(parts) = 1 THEN parts[1]
  ELSE parts[1] \o sep \o Join(Tail(parts), sep)

\* the concatenation of a sequence of sequences
RECURSIVE Flatten(_)
Flatten(ss) == IF ss = <<>> THEN <<>> ELSE Head(ss) \o Flatten(Tail(ss))

\* [x for x in xs if x]
RECURSIVE NonEmpty(_)
NonEmpty(xs) ==
  IF xs = <<>> THEN <<>>
  ELSE IF Head(xs) = <<>> THEN NonEmpty(Tail(xs))
  ELSE <<Head(xs)>> \o NonEmpty(Tail(xs))

----------------------------------------------------------------------------
(* Extractor: scrape_website *)

\* lines 57-62: strip every line, split it on double spaces, strip every
\* phrase, drop the empty chunks and join the rest with newlines
StripAll(xs) == [i \in 1..Len(xs) |-> Strip(xs[i])]

Phrases(line) == With(Split(line, <<" ", " ">>), LAMBDA ps : StripAll(ps))

NormalizeText(text) ==
  With(SplitLines(text), LAMBDA raw :
  With(StripAll(raw), LAMBDA lines :
  With(Flatten([i \in 1..Len(lines) |-> Phrases(lines[i])]), LAMBDA chunks :
  With(NonEmpty(chunks), LAMBDA kept : Join(kept, <<"\n">>)))))

\* What requests.get / raise_for_status / BeautifulSoup did for one URL:
\*   kind "neterr"   requests.get raised (connection error, timeout), msg = str(e)
\*   kind "httperr"  raise_for_status raised on a non-2xx status, msg = str(e)
\*   kind "parseerr" the HTML handling raised, msg = str(e)
\*   kind "ok"       2xx and text = soup.get_text() after dropping script/style
Fetch(kind, msg, text) == [kind |-> kind, msg |-> msg, text |-> text]

\* the value returned by the except branch, f"ERROR: {str(e)}"
ScrapeError(msg) == <<"E", "R", "R", "O", "R", ":", " ">> \o msg

\* scrape_website with the except branch returning str(e) alone
scrape_website_bare(f) ==
  IF f.kind = "ok" THEN NormalizeText(f.text) ELSE f.msg

\* scrape_website(url), given what the fetch of url did
scrape_website(f) ==
  IF f.kind = "ok" THEN NormalizeText(f.text) ELSE ScrapeError(f.msg)

\* site_text.startswith("ERROR:")
IsScrapeError(site_text) == StartsWith(site_text, <<"E", "R", "R", "O", "R", ":">>)

----------------------------------------------------------------------------
(* json.loads on the grammar: objects, arrays, strings without escapes,     *)
(* integers, true, false, null, whitespace.  Python values are records of  *)
(* one shape: t the type, n the int/bool payload, s the str payload,       *)
(* items the list elements or dict values, keys the dict keys.             *)

JNull     == [t |-> "null", n |-> 0, s |-> <<>>, items |-> <<>>, keys |-> <<>>]
JBool(b)  == [t |-> "bool", n |-> IF b THEN 1 ELSE 0, s |-> <<>>, items |-> <<>>, keys |-> <<>>]
JNum(n)   == [t |-> "int",  n |-> n, s |-> <<>>, items |-> <<>>, keys |-> <<>>]
JStr(s)   == [t |-> "str",  n |-> 0, s |-> s, items |-> <<>>, keys |-> <<>>]
JArr(xs)  == [t |-> "list", n |-> 0, s |-> <<>>, items |-> xs, keys |-> <<>>]
JObj(ks, vs) == [t |-> "dict", n |-> 0, s |-> <<>>, items |-> vs, keys |-> ks]

Digits == <<"0", "1", "2", "3", "4", "5", "6", "7", "8", "9">>

\* the character at position i, "" past the end
At(s, i) == IF i >= 1 /\ i <= Len(s) THEN s[i] ELSE ""

RECURSIVE SkipWs(_, _)
SkipWs(s, i) == IF At(s, i) \in WS THEN SkipWs(s, i + 1) ELSE i

PFail == [ok |-> FALSE, val |-> JNull, pos |-> 0]
POk(v, p) == [ok |-> TRUE, val |-> v, pos |-> p]

\* a string literal opening at s[i] = '"': no escapes, no control characters
ParseString(s, i) ==
  With(Drop(s, i), LAMBDA rest :
  With(Find(rest, <<"\"">>), LAMBDA j :
  With(Take(rest, j - 1), LAMBDA body :
    IF j = 0 THEN PFail
    ELSE IF \E k \in 1..Len(body) : body[k] \in {"\n", "\t", "\r", "\\"} THEN PFail
    ELSE POk(JStr(body), i + j + 1))))

RECURSIVE DigitsEnd(_, _)
DigitsEnd(s, i) == IF IndexIn(Digits, At(s, i)) # 0 THEN DigitsEnd(s, i + 1) ELSE i

RECURSIVE DigitsValue(_, _)
DigitsValue(ds, acc) ==
  IF ds = <<>> THEN acc ELSE DigitsValue(Tail(ds), acc * 10 + (IndexIn(Digits, Head(ds)) - 1))

\* an integer: -? (0 | [1-9][0-9]*)
ParseNumber(s, i) ==
  LET neg == At(s, i) = "-"
      b   == IF neg THEN i + 1 ELSE i
      e   == IF At(s, b) = "0" THEN b + 1 ELSE DigitsEnd(s, b)
      v   == DigitsValue(SubSeq(s, b, e - 1), 0)
  IN IF e = b THEN PFail ELSE POk(JNum(IF neg THEN 0 - v ELSE v), e)

RECURSIVE ParseValue(_, _)
RECURSIVE ParseElements(_, _, _)
RECURSIVE ParseMembers(_, _, _, _)

\* the elements of an array after "[", i at the start of an element
ParseElements(s, i, acc) ==
  With(ParseValue(s, i), LAMBDA r :
  With(SkipWs(s, r.pos), LAMBDA j :
    IF ~r.ok THEN PFail
    ELSE IF At(s, j) = "," THEN ParseElements(s, SkipWs(s, j + 1), Append(acc, r.val))
    ELSE IF At(s, j) = "]" THEN POk(JArr(Append(acc, r.val)), j + 1)
    ELSE PFail))

\* the members of an object after "{", i at the start of a key
ParseMembers(s, i, ks, vs) ==
  IF At(s, i) # "\"" THEN PFail
  ELSE
  With(ParseString(s, i), LAMBDA k :
  With(SkipWs(s, k.pos), LAMBDA c :
  With(ParseValue(s, SkipWs(s, c + 1)), LAMBDA r :
  With(SkipWs(s, r.pos), LAMBDA j :
    IF ~k.ok \/ At(s, c) # ":" THEN PFail
    ELSE IF ~r.ok THEN PFail
    ELSE IF At(s, j) = ","
      THEN ParseMembers(s, SkipWs(s, j + 1), Append(ks, k.val.s), Append(vs, r.val))
    ELSE IF At(s, j) = "}"
      THEN POk(JObj(Append(ks, k.val.s), Append(vs, r.val)), j + 1)
    ELSE PFail))))

\* one JSON value starting at s[i]
ParseValue(s, i) ==
  LET c == At(s, i) IN
  IF c = "{" THEN
    (IF At(s, SkipWs(s, i + 1)) = "}" THEN POk(JObj(<<>>, <<>>), SkipWs(s, i + 1) + 1)
     ELSE ParseMembers(s, SkipWs(s, i + 1), <<>>, <<>>))
  ELSE IF c = "[" THEN
    (IF At(s, SkipWs(s, i + 1)) = "]" THEN POk(JArr(<<>>), SkipWs(s, i + 1) + 1)
     ELSE ParseElements(s, SkipWs(s, i + 1), <<>>))
  ELSE IF c = "\"" THEN ParseString(s, i)
  ELSE IF OccursAt(s, <<"t", "r", "u", "e">>, i) THEN POk(JBool(TRUE), i + 4)
  ELSE IF OccursAt(s, <<"f", "a", "l", "s", "e">>, i) THEN POk(JBool(FALSE), i + 5)
  ELSE IF OccursAt(s, <<"n", "u", "l", "l">>, i) THEN POk(JNull, i + 4)
  ELSE ParseNumber(s, i)

\* json.loads(s): ok = FALSE stands for JSONDecodeError
json_loads(s) ==
  With(ParseValue(s, SkipWs(s, 1)), LAMBDA r :
    IF r.ok /\ SkipWs(s, r.pos) = Len(s) + 1 THEN r ELSE PFail)

\* d.get(key, default) on a dict; a repeated key keeps its last value
DictGet(d, key, default) ==
  IF \E i \in 1..Len(d.keys) : d.keys[i] = key
  THEN d.items[CHOOSE i \in 1..Len(d.keys) :
                 d.keys[i] = key /\ \A j \in (i + 1)..Len(d.keys) : d.keys[j] # key]
  ELSE default

\* bool(v)
Truthy(v) ==
  CASE v.t = "null" -> FALSE
    [] v.t \in {"bool", "int"} -> v.n # 0
    [] v.t = "str" -> v.s # <<>>
    [] v.t = "list" -> v.items # <<>>
    [] v.t = "dict" -> v.keys # <<>>

----------------------------------------------------------------------------
(* Verifier: get_best_model, fence stripping, result display *)

\* a catalog entry of genai.list_models()
Model(name, methods) == [name |-> name, methods |-> methods]

\* what genai.list_models() did: raised (msg = str(e)) or returned models
Listing(raised, msg, models) == [raised |-> raised, msg |-> msg, models |-> models]

\* [m for m in models if 'generateContent' in m.supported_generation_methods]
RECURSIVE ValidModels(_)
ValidModels(models) ==
  IF models = <<>> THEN <<>>
  ELSE IF "generateContent" \in Head(models).methods
  THEN <<Head(models)>> \o ValidModels(Tail(models))
  ELSE ValidModels(Tail(models))

\* FirstNamed without .lower(): the tier is matched case-sensitively
FirstNamedCaseSensitive(valid, tier) ==
  LET from[i \in 1..(Len(valid) + 1)] ==
        IF i > Len(valid) THEN 0
        ELSE IF Contains(valid[i].name, tier) THEN i
        ELSE from[i + 1]
  IN from[1]

\* next((m for m in valid if tier in m.name.lower()), None): its index, 0 for None
FirstNamed(valid, tier) ==
  LET from[i \in 1..(Len(valid) + 1)] ==
        IF i > Len(valid) THEN 0
        ELSE IF With(Lower(valid[i].name), LAMBDA low : Contains(low, tier)) THEN i
        ELSE from[i + 1]
  IN from[1]

\* [m.name for m in valid_models]
NamesOf(valid) == JArr([i \in 1..Len(valid) |-> JStr(valid[i].name)])

Picked(name, debug) == [name |-> name, debug |-> debug]

\* get_best_model falling back to a fixed model name when the listing raises
get_best_model_fallback(l) ==
  IF l.raised THEN Picked(JStr(<<"m", "o", "d", "e", "l", "s", "/", "g", "e", "m", "i", "n", "i", "-", "p", "r", "o">>), JStr(<<"E", "r", "r", "o", "r", " ", "l", "i", "s", "t", "i", "n", "g", " ", "m", "o", "d", "e", "l", "s", ":", " ">> \o l.msg))
  ELSE
  With(ValidModels(l.models), LAMBDA valid :
  With(FirstNamed(valid, <<"f", "l", "a", "s", "h">>), LAMBDA flash :
  With(FirstNamed(valid, <<"p", "r", "o">>), LAMBDA pro :
    IF valid = <<>>
      THEN Picked(JNull, JStr(<<"N", "o", " ", "m", "o", "d", "e", "l", "s", " ", "f", "o", "u", "n", "d", " ", "t", "h", "a", "t", " ", "s", "u", "p", "p", "o", "r", "t", " ", "g", "e", "n", "e", "r", "a", "t", "e", "C", "o", "n", "t", "e", "n", "t", ".">>))
    ELSE IF flash # 0 THEN Picked(JStr(valid[flash].name), NamesOf(valid))
    ELSE IF pro # 0 THEN Picked(JStr(valid[pro].name), NamesOf(valid))
    ELSE Picked(JStr(valid[1].name), NamesOf(valid)))))

\* get_best_model(): the pair (model name or None, debug info)
get_best_model(l) ==
  IF l.raised THEN Picked(JNull, JStr(<<"E", "r", "r", "o", "r", " ", "l", "i", "s", "t", "i", "n", "g", " ", "m", "o", "d", "e", "l", "s", ":", " ">> \o l.msg))
  ELSE
  With(ValidModels(l.models), LAMBDA valid :
  With(FirstNamed(valid, <<"f", "l", "a", "s", "h">>), LAMBDA flash :
  With(FirstNamed(valid, <<"p", "r", "o">>), LAMBDA pro :
    IF valid = <<>>
      THEN Picked(JNull, JStr(<<"N", "o", " ", "m", "o", "d", "e", "l", "s", " ", "f", "o", "u", "n", "d", " ", "t", "h", "a", "t", " ", "s", "u", "p", "p", "o", "r", "t", " ", "g", "e", "n", "e", "r", "a", "t", "e", "C", "o", "n", "t", "e", "n", "t", ".">>))
    ELSE IF flash # 0 THEN Picked(JStr(valid[flash].name), NamesOf(valid))
    ELSE IF pro # 0 THEN Picked(JStr(valid[pro].name), NamesOf(valid))
    ELSE Picked(JStr(valid[1].name), NamesOf(valid)))))

\* site_text[:30000]
MaxSiteChars == 30000

\* the two variable parts of the prompt f-string
Prompt(site_text, ad_script) == [site |-> Take(site_text, MaxSiteChars), ad |-> ad_script]

\* what model.generate_content(prompt) did: raised (msg = str(e)), or returned
\* a response whose .text is a string, or a response whose .text raises
\* (a reply without a text part), msg = str(e) of that error
Reply(kind, msg, text) == [kind |-> kind, msg |-> msg, text |-> text]

\* lines 151-158: strip, drop a leading fence and "json" tag, strip
StripFence(raw) ==
  With(Strip(raw), LAMBDA t0 :
  With(Split(t0, <<"U+0060", "U+0060", "U+0060">>), LAMBDA parts :
  With(IF StartsWith(t0, <<"U+0060", "U+0060", "U+0060">>) /\ Len(parts) >= 2
       THEN (IF StartsWith(parts[2], <<"j", "s", "o", "n">>) THEN Drop(parts[2], 4) ELSE parts[2])
       ELSE t0,
       LAMBDA t1 : Strip(t1))))

\* one call of the streamlit API
St(call, label, arg) == [call |-> call, label |-> label, arg |-> arg]

Shown(out, exc) == [out |-> out, raised |-> exc # <<>>, msg |-> exc]

\* the values "for h in hallucinations" yields
IterItems(h) ==
  CASE h.t = "list" -> h.items
    [] h.t = "str"  -> [i \in 1..Len(h.s) |-> JStr(<<h.s[i]>>)]
    [] h.t = "dict" -> [i \in 1..Len(h.keys) |-> JStr(h.keys[i])]
    [] OTHER -> <<>>

\* lines 165: st.metric accepts an int, float, str or None value
MetricStep(result) ==
  LET score == DictGet(result, <<"s", "c", "o", "r", "e">>, JNum(0)) IN
  IF result.t # "dict" THEN Shown(<<>>, <<"A", "t", "t", "r", "i", "b", "u", "t", "e", "E", "r", "r", "o", "r", ":", " ", "n", "o", " ", "a", "t", "t", "r", "i", "b", "u", "t", "e", " ", "g", "e", "t">>)
  ELSE IF score.t \in {"list", "dict"} THEN Shown(<<>>, <<"T", "y", "p", "e", "E", "r", "r", "o", "r", ":", " ", "n", "o", "t", " ", "a", "n", " ", "a", "c", "c", "e", "p", "t", "e", "d", " ", "t", "y", "p", "e">>)
  ELSE Shown(<<St("metric", "Quality Score", score)>>, <<>>)

\* lines 168-172
VerdictStep(result) ==
  LET v == DictGet(result, <<"v", "e", "r", "d", "i", "c", "t">>, JStr(<<"F", "A", "I", "L">>)) IN
  IF v.t # "str" THEN Shown(<<>>, <<"A", "t", "t", "r", "i", "b", "u", "t", "e", "E", "r", "r", "o", "r", ":", " ", "n", "o", " ", "a", "t", "t", "r", "i", "b", "u", "t", "e", " ", "u", "p", "p", "e", "r">>)
  ELSE IF Upper(v.s) = <<"P", "A", "S", "S">> THEN Shown(<<St("success", "Verdict", JStr(Upper(v.s)))>>, <<>>)
  ELSE Shown(<<St("error", "Verdict", JStr(Upper(v.s)))>>, <<>>)

\* lines 175-176
ToneStep(result) ==
  Shown(<<St("markdown", "### Tone Analysis", JNull),
          St("write", "tone", DictGet(result, <<"t", "o", "n", "e", "_", "c", "o", "n", "s", "i", "s", "t", "e", "n", "c", "y">>, JStr(<<"N", "/", "A">>)))>>, <<>>)

\* lines 179-185 with result["hallucinations"] in place of result.get
HallucinationStepNoDefault(result) ==
  LET h  == DictGet(result, <<"h", "a", "l", "l", "u", "c", "i", "n", "a", "t", "i", "o", "n", "s">>, JArr(<<>>))
      v  == DictGet(result, <<"v", "e", "r", "d", "i", "c", "t">>, JStr(<<"F", "A", "I", "L">>))
      hd == <<St("error", "Potential Hallucinations Detected", JNull)>>
  IN IF ~(\E i \in 1..Len(result.keys) : result.keys[i] = <<"h", "a", "l", "l", "u", "c", "i", "n", "a", "t", "i", "o", "n", "s">>)
       THEN Shown(<<>>, <<"K", "e", "y", "E", "r", "r", "o", "r", ":", " ", "h", "a", "l", "l", "u", "c", "i", "n", "a", "t", "i", "o", "n", "s">>)
     ELSE IF Truthy(h)
       THEN (IF h.t \in {"list", "str", "dict"}
             THEN Shown(hd \o [i \in 1..Len(IterItems(h)) |-> St("write", "- h", IterItems(h)[i])],
                        <<>>)
             ELSE Shown(hd, <<"T", "y", "p", "e", "E", "r", "r", "o", "r", ":", " ", "o", "b", "j", "e", "c", "t", " ", "i", "s", " ", "n", "o", "t", " ", "i", "t", "e", "r", "a", "b", "l", "e">>))
     ELSE IF Upper(v.s) = <<"P", "A", "S", "S">>
       THEN Shown(<<St("success", "No factual hallucinations detected.", JNull)>>, <<>>)
     ELSE Shown(<<>>, <<>>)

\* lines 179-185
HallucinationStep(result) ==
  LET h  == DictGet(result, <<"h", "a", "l", "l", "u", "c", "i", "n", "a", "t", "i", "o", "n", "s">>, JArr(<<>>))
      v  == DictGet(result, <<"v", "e", "r", "d", "i", "c", "t">>, JStr(<<"F", "A", "I", "L">>))
      hd == <<St("error", "Potential Hallucinations Detected", JNull)>>
  IN IF Truthy(h)
       THEN (IF h.t \in {"list", "str", "dict"}
             THEN Shown(hd \o [i \in 1..Len(IterItems(h)) |-> St("write", "- h", IterItems(h)[i])],
                        <<>>)
             ELSE Shown(hd, <<"T", "y", "p", "e", "E", "r", "r", "o", "r", ":", " ", "o", "b", "j", "e", "c", "t", " ", "i", "s", " ", "n", "o", "t", " ", "i", "t", "e", "r", "a", "b", "l", "e">>))
     ELSE IF Upper(v.s) = <<"P", "A", "S", "S">>
       THEN Shown(<<St("success", "No factual hallucinations detected.", JNull)>>, <<>>)
     ELSE Shown(<<>>, <<>>)

\* lines 165-185 in order; the first step that raises ends the display
Display(result) ==
  LET m == MetricStep(result) IN
  IF m.raised THEN m
  ELSE LET v == VerdictStep(result) IN
  IF v.raised THEN Shown(m.out \o v.out, v.msg)
  ELSE LET t == ToneStep(result)
           h == HallucinationStep(result)
       IN Shown(m.out \o v.out \o t.out \o h.out, h.msg)

\* the handler without line 191, st.code(response.text)
HandlerNoRaw(msg, r) ==
  [out |-> <<St("error", "Analysis failed", JStr(msg)),
             St("write", "Raw response (for debugging):", JNull)>>,
   escaped |-> FALSE]

\* lines 187-191: the streamlit calls of "except Exception as e", and whether
\* st.code(response.text) raised in turn (propagates: nothing encloses it)
Handler(msg, r) ==
  LET head == <<St("error", "Analysis failed", JStr(msg)),
                St("write", "Raw response (for debugging):", JNull)>>
  IN IF r.kind = "text" THEN [out |-> head \o <<St("code", "raw", JStr(r.text))>>, escaped |-> FALSE]
     ELSE IF r.kind = "notext" THEN [out |-> head, escaped |-> TRUE]
     ELSE [out |-> head, escaped |-> FALSE]

----------------------------------------------------------------------------
(* The environment: what the form, the target site and the provider give *)

\* the longest catalog genai.list_models() returns
MaxModels == 2

Keys    == {<<>>, <<"A", "I", "z", "a", "-", "k", "e", "y">>}
Urls    == {<<>>, <<"h", "t", "t", "p", "s", ":", "/", "/", "a", ".", "e", "x", "a", "m", "p", "l", "e">>}
Scripts == {<<>>, <<"T", "h", "e", " ", "#", "1", " ", "o", "r", "g", "a", "n", "i", "c", " ", "c", "o", "f", "f", "e", "e", " ", "i", "n", " ", "t", "h", "e", " ", "g", "a", "l", "a", "x", "y", "!">>}

Fetches ==
  { Fetch("neterr", <<"C", "o", "n", "n", "e", "c", "t", "i", "o", "n", " ", "r", "e", "f", "u", "s", "e", "d">>, <<>>),
    Fetch("httperr", <<"4", "0", "4", " ", "C", "l", "i", "e", "n", "t", " ", "E", "r", "r", "o", "r", ":", " ", "N", "o", "t", " ", "F", "o", "u", "n", "d">>, <<>>),
    Fetch("parseerr", <<"b", "a", "d", " ", "m", "a", "r", "k", "u", "p">>, <<>>),
    Fetch("ok", <<>>, <<" ", "\n", "\t", " ", "\n">>),
    Fetch("ok", <<>>, <<"O", "u", "r", " ", "c", "o", "f", "f", "e", "e", " ", "i", "s", " ", "1", "0", "0", "%", " ", "o", "r", "g", "a", "n", "i", "c", ".">>),
    Fetch("ok", <<>>, <<" ", " ", "F", "r", "e", "s", "h", " ", " ", "r", "o", "a", "s", "t", " ", " ", " ", "d", "a", "i", "l", "y", " ", "\n", "\n", " ", "F", "a", "i", "r", " ", "t", "r", "a", "d", "e", "\\", "r", "\n">>),
    Fetch("ok", <<>>, <<"E", "R", "R", "O", "R", ":", " ", "s", "o", "l", "d", " ", "o", "u", "t">>),
    Fetch("ok", <<>>, <<" ", "\n", " ", " ", "E", "R", "R", "O", "R", ":", "4", "0", "4", " ", "i", "s", " ", "o", "u", "r", " ", "l", "u", "c", "k", "y", " ", "n", "u", "m", "b", "e", "r">>) }

ModelPool ==
  { Model(<<"m", "o", "d", "e", "l", "s", "/", "g", "e", "m", "i", "n", "i", "-", "F", "l", "a", "s", "h">>, {"generateContent", "countTokens"}),
    Model(<<"m", "o", "d", "e", "l", "s", "/", "f", "l", "a", "s", "h", "-", "e", "m", "b", "e", "d">>, {"embedContent"}),
    Model(<<"m", "o", "d", "e", "l", "s", "/", "g", "e", "m", "i", "n", "i", "-", "p", "r", "o">>, {"generateContent"}),
    Model(<<"m", "o", "d", "e", "l", "s", "/", "b", "i", "s", "o", "n">>, {"generateContent", "countTokens"}) }

Catalogs == UNION {[1..n -> ModelPool] : n \in 0..MaxModels}

Listings ==
  {Listing(TRUE, <<"A", "P", "I", " ", "k", "e", "y", " ", "n", "o", "t", " ", "v", "a", "l", "i", "d">>, <<>>)} \cup {Listing(FALSE, <<>>, c) : c \in Catalogs}

\* the four fields of a well-typed verdict object, as JSON text
FieldTexts ==
  << <<"\"", "s", "c", "o", "r", "e", "\"", ":", "9", "0">>, <<"\"", "v", "e", "r", "d", "i", "c", "t", "\"", ":", "\"", "P", "A", "S", "S", "\"">>, <<"\"", "h", "a", "l", "l", "u", "c", "i", "n", "a", "t", "i", "o", "n", "s", "\"", ":", "[", "\"", "g", "a", "l", "a", "x", "y", "\"", "]">>, <<"\"", "t", "o", "n", "e", "_", "c", "o", "n", "s", "i", "s", "t", "e", "n", "c", "y", "\"", ":", "\"", "o", "k", "\"">> >>

FieldNames == << <<"s", "c", "o", "r", "e">>, <<"v", "e", "r", "d", "i", "c", "t">>, <<"h", "a", "l", "l", "u", "c", "i", "n", "a", "t", "i", "o", "n", "s">>, <<"t", "o", "n", "e", "_", "c", "o", "n", "s", "i", "s", "t", "e", "n", "c", "y">> >>

RECURSIVE Chosen(_, _, _)
Chosen(texts, mask, i) ==
  IF i > Len(texts) THEN <<>>
  ELSE (IF mask[i] THEN <<texts[i]>> ELSE <<>>) \o Chosen(texts, mask, i + 1)

\* the JSON object text holding the fields mask selects
ObjText(mask) == <<"{">> \o Join(Chosen(FieldTexts, mask, 1), <<",", " ">>) \o <<"}">>

Masks == [1..4 -> BOOLEAN]

\* JSON object texts whose present fields have the VerificationVerdict types
TypedBodies ==
  {ObjText(m) : m \in Masks} \cup
  { <<"{", "\"", "s", "c", "o", "r", "e", "\"", ":", "9", "0", ",", "\"", "v", "e", "r", "d", "i", "c", "t", "\"", ":", "\"", "P", "A", "S", "S", "\"", ",", "\"", "h", "a", "l", "l", "u", "c", "i", "n", "a", "t", "i", "o", "n", "s", "\"", ":", "[", "]", ",", "\"", "t", "o", "n", "e", "_", "c", "o", "n", "s", "i", "s", "t", "e", "n", "c", "y", "\"", ":", "\"", "o", "k", "\"", "}">>,
    <<"{", "\"", "s", "c", "o", "r", "e", "\"", ":", " ", "3", "5", ",", " ", "\"", "v", "e", "r", "d", "i", "c", "t", "\"", ":", " ", "\"", "f", "a", "i", "l", "\"", ",", " ", "\"", "h", "a", "l", "l", "u", "c", "i", "n", "a", "t", "i", "o", "n", "s", "\"", ":", " ", "[", "]", "}">>,
    <<"{", "\"", "v", "e", "r", "d", "i", "c", "t", "\"", ":", "\"", "p", "a", "s", "s", "\"", "}">> }

\* JSON object texts with a field of another type
IllTypedBodies ==
  { <<"{", "\"", "s", "c", "o", "r", "e", "\"", ":", "7", ",", "\"", "v", "e", "r", "d", "i", "c", "t", "\"", ":", "n", "u", "l", "l", "}">>,
    <<"{", "\"", "v", "e", "r", "d", "i", "c", "t", "\"", ":", "\"", "F", "A", "I", "L", "\"", ",", "\"", "h", "a", "l", "l", "u", "c", "i", "n", "a", "t", "i", "o", "n", "s", "\"", ":", "5", "}">>,
    <<"{", "\"", "s", "c", "o", "r", "e", "\"", ":", "[", "1", "]", "}">> }

\* a JSON object text holding a fence marker inside a string
TickBody == <<"{", "\"", "t", "o", "n", "e", "_", "c", "o", "n", "s", "i", "s", "t", "e", "n", "c", "y", "\"", ":", "\"", "u", "s", "e", "s", " ", "U+0060", "U+0060", "U+0060", " ", "b", "l", "o", "c", "k", "s", "\"", "}">>

\* JSON texts that are no object
NonObjectBodies == { <<"[", "1", "]">>, <<"n", "u", "l", "l">> }

\* reply texts that are not JSON
NonJsonBodies == { <<>>, <<"S", "o", "r", "r", "y", ",", " ", "I", " ", "c", "a", "n", "n", "o", "t", " ", "h", "e", "l", "p", ".">>, <<"{", "\"", "s", "c", "o", "r", "e", "\"", ":", "9", "0", ",">> }

ObjectBodies == TypedBodies \cup IllTypedBodies \cup {TickBody}

Bodies == ObjectBodies \cup NonObjectBodies \cup NonJsonBodies

Wraps == {"bare", "fence", "fence_json", "fence_json_ws"}

\* body as the provider may send it: bare, or in a fenced code block
Wrap(w, body) ==
  CASE w = "bare"          -> body
    [] w = "fence"         -> <<"U+0060", "U+0060", "U+0060", "\n">> \o body \o <<"\n", "U+0060", "U+0060", "U+0060">>
    [] w = "fence_json"    -> <<"U+0060", "U+0060", "U+0060", "j", "s", "o", "n", "\n">> \o body \o <<"\n", "U+0060", "U+0060", "U+0060">>
    [] w = "fence_json_ws" -> <<" ", "\n", "U+0060", "U+0060", "U+0060", "j", "s", "o", "n">> \o body \o <<"U+0060", "U+0060", "U+0060", " ", "\n">>

Replies ==
  { Reply("raise", <<"4", "2", "9", " ", "q", "u", "o", "t", "a", " ", "e", "x", "c", "e", "e", "d", "e", "d">>, <<>>),
    Reply("notext", <<"r", "e", "s", "p", "o", "n", "s", "e", ".", "t", "e", "x", "t", " ", "r", "e", "q", "u", "i", "r", "e", "s", " ", "a", " ", "v", "a", "l", "i", "d", " ", "P", "a", "r", "t">>, <<>>) }
  \cup {Reply("text", <<>>, Wrap(w, b)) : w \in Wraps, b \in Bodies}

----------------------------------------------------------------------------
(* One run of the "if verify_btn:" block *)

VARIABLES
  pc,          \* position in the handler
  gemini_key,  \* the three form fields
  target_url,
  ad_script,
  fetched,     \* what the GET of target_url did
  site_text,   \* scrape_website's return value
  listing,     \* what genai.list_models() did, while get_best_model runs
  model_name,  \* get_best_model()'s first component
  prompt,      \* the prompt passed to generate_content
  response,    \* what generate_content did
  text_resp,   \* the reply after fence stripping
  result,      \* json.loads(text_resp)
  out,         \* the streamlit calls made so far, in order
  net,         \* the outbound calls made so far, in order
  configured,  \* genai.configure was called
  escaped      \* an exception left the handler

vars == <<pc, gemini_key, target_url, ad_script, fetched, site_text, listing, model_name,
          prompt, response, text_resp, result, out, net, configured, escaped>>

NoFetch    == Fetch("none", <<>>, <<>>)
\* no listing at hand: get_best_model is not running
NoListing  == Listing(FALSE, <<>>, <<>>)
NoResponse == Reply("none", <<>>, <<>>)
NoPrompt   == [site |-> <<>>, ad |-> <<>>]

Init ==
  /\ pc = "idle"
  /\ gemini_key \in Keys
  /\ target_url \in Urls
  /\ ad_script \in Scripts
  /\ fetched = NoFetch
  /\ site_text = <<>>
  /\ listing = NoListing
  /\ model_name = JNull
  /\ prompt = NoPrompt
  /\ response = NoResponse
  /\ text_resp = <<>>
  /\ result = JNull
  /\ out = <<>>
  /\ net = <<>>
  /\ configured = FALSE
  /\ escaped = FALSE

\* lines 69-75: the three blank-field checks
MissingInput(key, url, script) ==
  IF key = <<>> THEN <<St("error", "Please enter your Google Gemini API Key.", JNull)>>
  ELSE IF url = <<>> THEN <<St("error", "Please enter a Target URL.", JNull)>>
  ELSE IF script = <<>> THEN <<St("error", "Please enter the Ad Script.", JNull)>>
  ELSE <<>>

\* lines 68-76
Validate ==
  /\ pc = "idle"
  /\ out' = out \o MissingInput(gemini_key, target_url, ad_script)
  /\ pc' = IF MissingInput(gemini_key, target_url, ad_script) = <<>> THEN "scraping" ELSE "done"
  /\ UNCHANGED <<gemini_key, target_url, ad_script, fetched, site_text, listing, model_name,
                 prompt, response, text_resp, result, net, configured, escaped>>

\* line 77: site_text = scrape_website(target_url)
Scrape ==
  /\ pc = "scraping"
  /\ \E f \in Fetches :
       /\ fetched' = f
       /\ site_text' = scrape_website(f)
  /\ net' = Append(net, "GET")
  /\ pc' = "classify"
  /\ UNCHANGED <<gemini_key, target_url, ad_script, listing, model_name, prompt, response,
                 text_resp, result, out, configured, escaped>>

\* lines 79-81 without the else: the failure is shown and the handler goes on
ClassifyFallsThrough ==
  /\ pc = "classify"
  /\ out' = IF IsScrapeError(site_text)
            THEN Append(out, St("error", "Failed to scrape website", JStr(site_text)))
            ELSE out
  /\ pc' = "scraped"
  /\ UNCHANGED <<gemini_key, target_url, ad_script, fetched, site_text, listing, model_name,
                 prompt, response, text_resp, result, net, configured, escaped>>

\* lines 79-81
Classify ==
  /\ pc = "classify"
  /\ IF IsScrapeError(site_text)
       THEN /\ out' = Append(out, St("error", "Failed to scrape website", JStr(site_text)))
            /\ pc' = "done"
       ELSE /\ out' = out
            /\ pc' = "scraped"
  /\ UNCHANGED <<gemini_key, target_url, ad_script, fetched, site_text, listing, model_name,
                 prompt, response, text_resp, result, net, configured, escaped>>

\* lines 82-85: genai.configure(api_key=gemini_key), no outbound call
Configure ==
  /\ pc = "scraped"
  /\ configured' = TRUE
  /\ pc' = "listing"
  /\ UNCHANGED <<gemini_key, target_url, ad_script, fetched, site_text, listing, model_name,
                 prompt, response, text_resp, result, out, net, escaped>>

\* line 90, entered from line 110: models = list(genai.list_models())
ListModels ==
  /\ pc = "listing"
  /\ listing' \in Listings
  /\ net' = Append(net, "LIST")
  /\ pc' = "select"
  /\ UNCHANGED <<gemini_key, target_url, ad_script, fetched, site_text, model_name, prompt,
                 response, text_resp, result, out, configured, escaped>>

\* lines 92-145: the rest of get_best_model(), the model_name check, the prompt
SelectModel ==
  /\ pc = "select"
  /\ \E best \in {get_best_model(listing)} :
       /\ model_name' = best.name
       /\ IF ~Truthy(best.name)
            THEN /\ out' = Append(out, St("error", "Could not find a valid model", best.debug))
                 /\ prompt' = prompt
                 /\ pc' = "done"
            ELSE /\ out' = Append(out, St("info", "Using model", best.name))
                 /\ prompt' = Prompt(site_text, ad_script)
                 /\ pc' = "generate"
  /\ listing' = NoListing
  /\ UNCHANGED <<gemini_key, target_url, ad_script, fetched, site_text, response, text_resp,
                 result, net, configured, escaped>>

\* line 148: response = model.generate_content(prompt); a raise goes to line 187
Generate ==
  /\ pc = "generate"
  /\ net' = Append(net, "GEN")
  /\ \E r \in Replies :
       IF r.kind = "raise"
         THEN /\ response' = response
              /\ \E h \in {Handler(r.msg, response)} :
                   /\ out' = out \o h.out
                   /\ escaped' = h.escaped
              /\ pc' = "done"
         ELSE /\ response' = r
              /\ out' = out
              /\ escaped' = escaped
              /\ pc' = "parse"
  /\ UNCHANGED <<gemini_key, target_url, ad_script, fetched, site_text, listing, model_name,
                 prompt, text_resp, result, configured>>

\* lines 151-160: response.text, fence stripping, json.loads; a raise goes to
\* line 187
Parse ==
  /\ pc = "parse"
  /\ IF response.kind = "notext"
       THEN /\ text_resp' = text_resp
            /\ result' = result
            /\ \E h \in {Handler(response.msg, response)} :
                 /\ out' = out \o h.out
                 /\ escaped' = h.escaped
            /\ pc' = "done"
       ELSE /\ text_resp' = StripFence(response.text)
            /\ \E parsed \in {json_loads(text_resp')} :
                 IF parsed.ok
                   THEN /\ result' = parsed.val
                        /\ out' = out
                        /\ escaped' = escaped
                        /\ pc' = "render"
                   ELSE /\ result' = result
                        /\ \E h \in {Handler(<<"J", "S", "O", "N", "D", "e", "c", "o", "d", "e", "E", "r", "r", "o", "r">>, response)} :
                             /\ out' = out \o h.out
                             /\ escaped' = h.escaped
                        /\ pc' = "done"
  /\ UNCHANGED <<gemini_key, target_url, ad_script, fetched, site_text, listing, model_name,
                 prompt, response, net, configured>>

\* lines 162-185, and lines 187-191 when a display step raises
Render ==
  /\ pc = "render"
  /\ \E shown \in {Display(result)} :
       IF shown.raised
         THEN \E h \in {Handler(shown.msg, response)} :
                /\ out' = out \o shown.out \o h.out
                /\ escaped' = h.escaped
         ELSE /\ out' = out \o shown.out
              /\ escaped' = escaped
  /\ pc' = "done"
  /\ UNCHANGED <<gemini_key, target_url, ad_script, fetched, site_text, listing, model_name,
                 prompt, response, text_resp, result, net, configured>>

Next ==
  \/ Validate
  \/ Scrape
  \/ Classify
  \/ Configure
  \/ ListModels
  \/ SelectModel
  \/ Generate
  \/ Parse
  \/ Render

Spec == Init /\ [][Next]_vars

\* The interpreter runs the script on to its end: a step of the handler waits
\* on nothing but an external call, and every external call returns or raises
\* (the GET has a 10 second timeout, line 46).
FairSpec == Spec /\ WF_vars(Next)

----------------------------------------------------------------------------
(* Vocabulary of the properties *)

\* st.error was called with this message
Reported(label) == \E i \in 1..Len(out) : out[i].call = "error" /\ out[i].label = label

\* the calls of out that carry this label
Labelled(label) == SelectSeq(out, LAMBDA e : e.label = label)

ResultLabels ==
  {"Quality Score", "Verdict", "### Tone Analysis", "tone",
   "Potential Hallucinations Detected", "- h", "No factual hallucinations detected."}

\* some part of the verdict display was rendered
ResultRendered == \E i \in 1..Len(out) : out[i].label \in ResultLabels

FailureReported ==
  \/ Reported("Failed to scrape website")
  \/ Reported("Could not find a valid model")
  \/ Reported("Analysis failed")

NonBlank == gemini_key # <<>> /\ target_url # <<>> /\ ad_script # <<>>

\* the phase of the request, read off the handler's position and its output
Phase ==
  CASE pc = "idle" -> "IDLE"
    [] pc \in {"scraping", "classify"} -> "SCRAPING"
    [] pc = "scraped" -> "SCRAPED"
    [] pc \in {"listing", "select", "generate", "parse", "render"} -> "VERIFYING"
    [] pc = "done" ->
         IF Reported("Failed to scrape website") THEN "SCRAPE_FAILED"
         ELSE IF Reported("Could not find a valid model") \/ Reported("Analysis failed")
           THEN "VERIFY_FAILED"
         ELSE IF net = <<>> THEN "INPUT_MISSING"
         ELSE "VERIFIED"

Terminal == {"SCRAPE_FAILED", "VERIFY_FAILED", "VERIFIED"}

Edges ==
  { <<"IDLE", "SCRAPING">>, <<"SCRAPING", "SCRAPE_FAILED">>, <<"SCRAPING", "SCRAPED">>,
    <<"SCRAPED", "VERIFYING">>, <<"VERIFYING", "VERIFY_FAILED">>, <<"VERIFYING", "VERIFIED">> }

----------------------------------------------------------------------------
(* C1 *)

\* C1: a request with non-blank key, URL and script changes phase only along
\* IDLE -> SCRAPING -> SCRAPE_FAILED | SCRAPED -> VERIFYING -> VERIFY_FAILED |
\* VERIFIED; the three terminal phases are never left; the request ends in a
\* terminal phase; and VERIFIED is reached only with a reply parsed by json.loads.
C1_Lifecycle ==
  /\ [][NonBlank => (Phase' = Phase \/ <<Phase, Phase'>> \in Edges)]_vars
  /\ [](Phase = "VERIFIED" =>
          /\ response.kind = "text"
          /\ json_loads(text_resp).ok
          /\ result = json_loads(text_resp).val)
  /\ (NonBlank => <>[](Phase \in Terminal))

C1_Witness ==
  /\ Phase = "VERIFIED"
  /\ ResultRendered
  /\ net = <<"GET", "LIST", "GEN">>

----------------------------------------------------------------------------
(* C2 *)

\* C2: when the GET raises or the status is not 2xx, scrape_website returns
\* "ERROR:" followed by the error text, the handler shows the scrape failure
\* and nothing else, and genai is neither configured nor called.
C2_ScrapeFailureStops ==
  fetched.kind \in {"neterr", "httperr"} =>
    /\ StartsWith(site_text, <<"E", "R", "R", "O", "R", ":">>)
    /\ fetched.msg # <<>> /\ Contains(site_text, fetched.msg)
    /\ pc \in {"classify", "done"}
    /\ pc = "done" => out = <<St("error", "Failed to scrape website", JStr(site_text))>>
    /\ pc = "classify" => out = <<>>
    /\ ~configured
    /\ net = <<"GET">>

C2_Witness ==
  /\ pc = "done"
  /\ fetched.kind = "httperr"
  /\ Len(out) = 1
  /\ Reported("Failed to scrape website")

----------------------------------------------------------------------------
(* C3 *)

\* C3: a GET that succeeded and whose HTML was parsed is never classified as
\* a scrape failure: the Verifier runs on its text, whatever the text is.
C3_SuccessIsNotFailure ==
  (fetched.kind = "ok" /\ pc \notin {"scraping", "classify"}) =>
    /\ ~Reported("Failed to scrape website")
    /\ pc = "scraped" \/ configured

----------------------------------------------------------------------------
(* C4 *)

\* C4: no exception leaves the handler.
C4_NothingEscapes == ~escaped

----------------------------------------------------------------------------
(* C5 *)

\* C5: in a finished request, a reported failure and rendered verdict output
\* exclude each other; without a failure, a parsed reply has its score,
\* verdict and tone rendered.
C5_AllOrNothing ==
  pc = "done" =>
    /\ ~(FailureReported /\ ResultRendered)
    /\ (Phase = "VERIFIED" =>
          /\ Len(Labelled("Quality Score")) = 1
          /\ Len(Labelled("Verdict")) = 1
          /\ Len(Labelled("tone")) = 1)

----------------------------------------------------------------------------
(* C6 *)

\* C6: a JSON object text J sent inside a fenced code block (with or without
\* the "json" tag, with or without surrounding whitespace) is parsed to the
\* value of the bare reply J, and the bare reply J is parsed as J.
C6_FenceTransparent ==
  \A b \in ObjectBodies : \A w \in Wraps :
    (pc \in {"render", "done"} /\ response.kind = "text" /\ response.text = Wrap(w, b)) =>
      /\ json_loads(text_resp).ok
      /\ result = json_loads(b).val

----------------------------------------------------------------------------
(* C7 *)

Has(d, key) == \E i \in 1..Len(d.keys) : d.keys[i] = key

\* the value the reply gives for key (of the last member so named)
Field(d, key) ==
  d.items[CHOOSE i \in 1..Len(d.keys) :
            d.keys[i] = key /\ \A j \in (i + 1)..Len(d.keys) : d.keys[j] # key]

Args(calls) == [i \in 1..Len(calls) |-> calls[i].arg]

\* the reply was parsed by json.loads into a dict
ParsedObject ==
  /\ pc = "done"
  /\ response.kind = "text"
  /\ json_loads(text_resp).ok
  /\ result = json_loads(text_resp).val
  /\ result.t = "dict"

\* the fields the reply holds have the types of a VerificationVerdict
WellTyped(d) ==
  /\ Has(d, <<"s", "c", "o", "r", "e">>) => Field(d, <<"s", "c", "o", "r", "e">>).t = "int"
  /\ Has(d, <<"v", "e", "r", "d", "i", "c", "t">>) => Field(d, <<"v", "e", "r", "d", "i", "c", "t">>).t = "str"
  /\ Has(d, <<"h", "a", "l", "l", "u", "c", "i", "n", "a", "t", "i", "o", "n", "s">>) => Field(d, <<"h", "a", "l", "l", "u", "c", "i", "n", "a", "t", "i", "o", "n", "s">>).t = "list"
  /\ Has(d, <<"t", "o", "n", "e", "_", "c", "o", "n", "s", "i", "s", "t", "e", "n", "c", "y">>) => Field(d, <<"t", "o", "n", "e", "_", "c", "o", "n", "s", "i", "s", "t", "e", "n", "c", "y">>).t = "str"

\* the score, the tone and the hallucinations shown are the reply's, or the
\* defaults 0, "N/A" and [] for the fields it omits
ShownWithDefaults ==
  /\ Args(Labelled("Quality Score")) =
       <<IF Has(result, <<"s", "c", "o", "r", "e">>) THEN Field(result, <<"s", "c", "o", "r", "e">>) ELSE JNum(0)>>
  /\ Args(Labelled("tone")) =
       <<IF Has(result, <<"t", "o", "n", "e", "_", "c", "o", "n", "s", "i", "s", "t", "e", "n", "c", "y">>) THEN Field(result, <<"t", "o", "n", "e", "_", "c", "o", "n", "s", "i", "s", "t", "e", "n", "c", "y">>)
         ELSE JStr(<<"N", "/", "A">>)>>
  /\ Args(Labelled("- h")) =
       (IF Has(result, <<"h", "a", "l", "l", "u", "c", "i", "n", "a", "t", "i", "o", "n", "s">>) THEN Field(result, <<"h", "a", "l", "l", "u", "c", "i", "n", "a", "t", "i", "o", "n", "s">>).items
        ELSE <<>>)

\* C7 as claimed: whatever JSON object the reply parses to, the request does
\* not fail, omitted fields get their defaults and every present field,
\* the verdict included, is shown as returned.
C7_DefaultsForAnyObject ==
  ParsedObject =>
    /\ ~FailureReported /\ ~escaped /\ Phase = "VERIFIED"
    /\ ShownWithDefaults
    /\ Args(Labelled("Verdict")) =
         <<IF Has(result, <<"v", "e", "r", "d", "i", "c", "t">>) THEN Field(result, <<"v", "e", "r", "d", "i", "c", "t">>) ELSE JStr(<<"F", "A", "I", "L">>)>>

\* C7, amended: when the reply parses to a JSON object whose present fields
\* have the VerificationVerdict types, the request does not fail and ends
\* VERIFIED; an omitted field is replaced by its default (0, "FAIL", [],
\* "N/A"); score, tone and hallucinations are shown as returned and the
\* verdict is shown upper-cased.
C7_DefaultsForTypedObject ==
  (ParsedObject /\ WellTyped(result)) =>
    /\ ~FailureReported /\ ~escaped /\ Phase = "VERIFIED"
    /\ ShownWithDefaults
    /\ Args(Labelled("Verdict")) =
         <<JStr(Upper(IF Has(result, <<"v", "e", "r", "d", "i", "c", "t">>) THEN Field(result, <<"v", "e", "r", "d", "i", "c", "t">>).s ELSE <<"F", "A", "I", "L">>))>>

C7_Witness ==
  /\ ParsedObject /\ WellTyped(result)
  /\ Has(result, <<"s", "c", "o", "r", "e">>) /\ ~Has(result, <<"h", "a", "l", "l", "u", "c", "i", "n", "a", "t", "i", "o", "n", "s">>) /\ ~Has(result, <<"v", "e", "r", "d", "i", "c", "t">>)
  /\ Args(Labelled("Verdict")) = <<JStr(<<"F", "A", "I", "L">>)>>
  /\ Labelled("- h") = <<>>

----------------------------------------------------------------------------
(* C8 *)

\* C8: a reply that is not JSON after fence stripping ends the request as
\* VERIFY_FAILED with the failure message, renders no part of the verdict
\* display, and the reply text as received is shown with st.code.
C8_ParseFailureShowsRaw ==
  (pc = "done" /\ response.kind = "text" /\ ~json_loads(StripFence(response.text)).ok) =>
    /\ Phase = "VERIFY_FAILED"
    /\ Reported("Analysis failed")
    /\ ~ResultRendered
    /\ \E i \in 1..Len(out) : out[i].call = "code" /\ out[i].arg = JStr(response.text)
    /\ ~escaped

C8_Witness ==
  /\ pc = "done"
  /\ response.kind = "text"
  /\ response.text = Wrap("fence_json", <<"{", "\"", "s", "c", "o", "r", "e", "\"", ":", "9", "0", ",">>)
  /\ out[Len(out)] = St("code", "raw", JStr(response.text))

----------------------------------------------------------------------------
(* C9 *)

CallPrefixes == {<<>>, <<"GET">>, <<"GET", "LIST">>, <<"GET", "LIST", "GEN">>}

\* C9: a request makes at most one GET, one model listing and one generation
\* call, in this order; the listing follows a successful GET only; the
\* generation follows a listing that returned some model supporting
\* generateContent only; after a failed call no further call is made.
C9_CallsOnceInOrder ==
  /\ [](net \in CallPrefixes)
  /\ [](Len(net) >= 2 => fetched.kind = "ok")
  /\ [](Len(net) = 3 => Truthy(model_name))
  /\ [][pc' = "generate" =>
          /\ pc = "select" /\ ~listing.raised
          /\ \E i \in 1..Len(listing.models) : "generateContent" \in listing.models[i].methods]_vars
  /\ [][(fetched.kind \in {"neterr", "httperr", "parseerr"}) => net' = net]_vars
  /\ [][(pc = "select" /\ listing.raised) => (net' = net /\ pc' = "done")]_vars
  /\ [][(Len(net') = 3 /\ response'.kind = "none") => pc' = "done"]_vars
  /\ [][pc # "done"]_vars

C9_Witness ==
  /\ pc = "done"
  /\ net = <<"GET", "LIST", "GEN">>
  /\ response.kind = "none"
  /\ Reported("Analysis failed")

----------------------------------------------------------------------------
(* C10 *)

\* positions of the catalog entries supporting generateContent
Eligible(ms) == {i \in 1..Len(ms) : "generateContent" \in ms[i].methods}

\* those among them whose name holds tier, whatever the case
Tiered(ms, tier) == {i \in Eligible(ms) : Contains(Lower(ms[i].name), tier)}

PreferredIndex(ms) ==
  IF Tiered(ms, <<"f", "l", "a", "s", "h">>) # {} THEN Least(Tiered(ms, <<"f", "l", "a", "s", "h">>))
  ELSE IF Tiered(ms, <<"p", "r", "o">>) # {} THEN Least(Tiered(ms, <<"p", "r", "o">>))
  ELSE Least(Eligible(ms))

====
